---------------------------- MODULE Spec2Model ----------------------------
(***************************************************************************)
(* A model of route/RouteManagerBase.py: the worker registry, the subroute *)
(* partitioner (__worker_changed_update_routepools), the priority overlay  *)
(* and the next-location dispatcher (get_next_location).                   *)
(*                                                                         *)
(* Locations are small integers (Location has value equality and an        *)
(* order, nothing else is used).  Origins are worker names; one worker     *)
(* thread per origin drives get_next_location(origin).  time.time() is the *)
(* variable now.  The manager's fields are the variables named after them  *)
(* (without the leading underscore).                                       *)
(***************************************************************************)
EXTENDS Integers, Sequences, FiniteSets, TLC

(***************************************************************************)
(* Bounds of the model.                                                    *)
(***************************************************************************)
\* rounds[o] is only capped so that the state space is finite
MaxRounds == 2
\* drains counts the drained rounds of the init phase up to MaxDrains
MaxDrains == 3
\* time.time() runs over 0..MaxTime
MaxTime == 2
\* a fetched priority queue holds at most MaxPrio events
MaxPrio == 2

Origins == {"W1", "W2", "W3"}

\* position types written to positiontyp (lines 146, 478, 483)
NORMAL == 0
PRIORITY == 1

(***************************************************************************)
(* Sequences as Python lists and deques.                                   *)
(***************************************************************************)
Range(q) == {q[k] : k \in 1..Len(q)}

\* 0-based index of the first occurrence of x in q (list.index, x in q)
IndexOf(q, x) == (CHOOSE k \in 1..Len(q) : q[k] = x /\ \A j \in 1..(k - 1) : q[j] # x) - 1

\* the elements of q at the 0-based indices lo..hi-1, all of which exist
Slice(q, lo, hi) == [k \in 1..(hi - lo) |-> q[lo + k]]

\* what is left of deque(q) after "while len(d) > 0 and d.popleft() != x: pass"
AfterFirst(q, x) ==
    IF x \in Range(q) THEN Slice(q, IndexOf(q, x) + 1, Len(q)) ELSE <<>>

\* del lst[a:b] for 0 <= a and 0 <= b <= len(lst): nothing goes when a >= b
DelSlice(lst, a, b) ==
    IF a >= b THEN lst ELSE Slice(lst, 0, a) \o Slice(lst, b, Len(lst))

\* list.remove(x) for an x that is in the list: the first occurrence goes
Remove(lst, x) ==
    Slice(lst, 0, IndexOf(lst, x)) \o Slice(lst, IndexOf(lst, x) + 1, Len(lst))

\* math.ceil(a / b) for a >= 0, b >= 1
Ceil(a, b) == (a + b - 1) \div b

\* F(e) with e evaluated once: a local variable holding the value of e
Bind(e, F(_)) == CHOOSE y \in {F(x) : x \in {e}} : TRUE


(***************************************************************************)
(* The subroute partitioner, __worker_changed_update_routepools.           *)
(* A routepool entry is [origin, last_access, queue, subroute]; the        *)
(* routepool is the sequence of its entries in dict (insertion) order,     *)
(* which is the order the partitioner iterates in.                         *)
(***************************************************************************)
RoutePoolEntry(origin, t) ==
    [origin |-> origin, last_access |-> t, queue |-> <<>>, subroute |-> <<>>]

PoolOrigins(pool) == {pool[k].origin : k \in 1..Len(pool)}

PoolIndex(pool, o) == CHOOSE k \in 1..Len(pool) : pool[k].origin = o

\* the local variable old_queue before its first assignment (line 629)
Unbound == [bound |-> FALSE, q |-> <<>>]
Bound(q) == [bound |-> TRUE, q |-> q]

\* lines 599, 605-613: the index range(lo, hi) read for the i-th routepool key
SubrouteRange(i, m, n) ==
    [lo |-> i * Ceil(m, n),
     hi |-> IF m % 2 = 0 THEN (i + 1) * Ceil(m, n) ELSE (i + 1) * Ceil(m, n) - 1]

\* the list comprehension of lines 606-613 raises IndexError iff it reads an
\* index that is not in the round remainder
SubrouteReadFails(i, m, n) ==
    LET r == SubrouteRange(i, m, n) IN r.lo < r.hi /\ r.hi > m

NewSubroute(rem, i, n) ==
    LET r == SubrouteRange(i, Len(rem), n)
    IN  IF r.lo < r.hi THEN Slice(rem, r.lo, r.hi) ELSE <<>>

\* lines 680-683: refill an empty queue, then "don't forget to update the subroute"
FinishEntry(entry, new_subroute, oq) ==
    [entry |-> [entry EXCEPT
                  !.queue = IF Len(entry.queue) = 0 THEN new_subroute ELSE @,
                  !.subroute = new_subroute],
     old_queue |-> oq,
     exc |-> "none"]

EntryRaises(entry, oq, e) == [entry |-> entry, old_queue |-> oq, exc |-> e]

\* lines 624-652: new_subroute is shorter than the entry's subroute
ShrunkEntry(entry, new_subroute, oq) ==
    IF Len(entry.queue) > 0 /\ Len(new_subroute) = 0
    THEN \* line 630 evaluates new_subroute[0]
         EntryRaises(entry, oq, "IndexError")
    ELSE LET old_queue == IF Len(entry.queue) = 0 THEN <<>>
                          ELSE AfterFirst(entry.queue, new_subroute[1])
         IN  IF Len(old_queue) = 0
             THEN \* lines 633-638: reset the queue and continue (line 683 is skipped)
                  [entry |-> [entry EXCEPT !.queue = new_subroute],
                   old_queue |-> Bound(old_queue),
                   exc |-> "none"]
             ELSE LET last_el_old_q == old_queue[Len(old_queue)]
                      extended ==
                          IF last_el_old_q \in Range(new_subroute)
                          THEN [entry EXCEPT
                                  !.queue = @ \o AfterFirst(new_subroute, last_el_old_q)]
                          ELSE entry
                  IN  FinishEntry(extended, new_subroute, Bound(old_queue))

\* lines 654-678: new_subroute is longer than the entry's non-empty subroute
GrownEntry(entry, new_subroute, oq) ==
    LET last_el_old_route == entry.subroute[Len(entry.subroute)]
        old_queue_list == entry.queue
        last_el_new_route == new_subroute[Len(new_subroute)]
    IN  IF last_el_new_route \in Range(old_queue_list)
        THEN \* line 670 reads old_queue, the local of the shrunk branch
             IF ~oq.bound THEN EntryRaises(entry, oq, "UnboundLocalError")
             ELSE IF last_el_new_route \notin Range(oq.q)
                  THEN EntryRaises(entry, oq, "ValueError")
                  ELSE FinishEntry(
                         [entry EXCEPT !.queue =
                            DelSlice(old_queue_list, IndexOf(oq.q, last_el_new_route),
                                     Len(old_queue_list) - 1)],
                         new_subroute, oq)
        ELSE IF last_el_old_route \in Range(new_subroute)
             THEN FinishEntry(
                    [entry EXCEPT !.queue =
                       old_queue_list \o Slice(new_subroute,
                                               IndexOf(new_subroute, last_el_old_route),
                                               Len(new_subroute))],
                    new_subroute, oq)
             ELSE FinishEntry(entry, new_subroute, oq)

\* lines 615-683: one iteration of the loop, after new_subroute was computed
ReconcileEntry(entry, new_subroute, oq) ==
    LET fresh == IF Len(entry.subroute) = 0
                 THEN [entry EXCEPT !.subroute = new_subroute,
                                    !.queue = @ \o new_subroute]
                 ELSE entry
    IN  IF Len(new_subroute) = Len(fresh.subroute)
        THEN FinishEntry(fresh, new_subroute, oq)
        ELSE IF Len(new_subroute) < Len(fresh.subroute)
             THEN ShrunkEntry(fresh, new_subroute, oq)
             ELSE GrownEntry(fresh, new_subroute, oq)

\* lines 600-683: the loop over the routepool keys, from the k-th key on
RECURSIVE UpdateLoop(_, _, _, _, _)
UpdateLoop(pool, k, oq, rem, n) ==
    IF k > Len(pool) THEN [pool |-> pool, exc |-> "none"]
    ELSE IF SubrouteReadFails(k - 1, Len(rem), n)
         THEN [pool |-> pool, exc |-> "IndexError"]
         ELSE Bind(ReconcileEntry(pool[k], NewSubroute(rem, k - 1, n), oq),
                   LAMBDA r :
                     IF r.exc # "none" THEN [pool |-> pool, exc |-> r.exc]
                     ELSE Bind([pool EXCEPT ![k] = r.entry],
                               LAMBDA p : UpdateLoop(p, k + 1, r.old_queue, rem, n)))


(***************************************************************************)
(* The manager.  Its fields are the variables of the same name; the        *)
(* operations below are written on a record s of these fields, so that a   *)
(* handler's calls compose in the order of the code.                       *)
(*   prio_queue          the heap as the sequence of its events <<due_at,  *)
(*                       location>> in pop order; None and [] read alike   *)
(*                       at lines 453 and 473 and are both <<>>            *)
(*   round_started_time  TRUE iff it is not None (only that is read)       *)
(*   manager_mutex       the thread that holds the RLock between two       *)
(*                       calls, "free" otherwise.  A call that returns     *)
(*                       without its release leaves the lock with the      *)
(*                       calling thread for good: no later call releases   *)
(*                       more often than it acquires.                      *)
(*   settings, mode      the settings dict and the mode of the manager     *)
(*   hooks               what the mode's abstract methods answer           *)
(***************************************************************************)
VARIABLES
    route, current_route_round_coords, routepool, workers_registered, rounds,
    positiontyp, last_round_prio, prio_queue, is_started, start_calc, init,
    init_mode_rounds, round_started_time, update_prio_queue_thread,
    manager_mutex,
    \* the set _coords_to_be_ignored
    coords_to_be_ignored,
    \* whether the event _stop_update_thread is set
    stop_update_thread,
    settings, mode, hooks,
    \* time.time()
    now,
    \* pc[o]: where the thread of origin o is in get_next_location
    \*   "idle"    not in a call
    \*   "retry"   its candidate was rejected, about to recurse (line 566 or 537)
    \*   "sleep"   in time.sleep(1) of the wait loop (line 459)
    \*   "blocked" waiting for manager_mutex, which another thread kept
    \*   "tested"  holding manager_mutex between the test of the head of the
    \*             heap (line 474) and the heappop (line 475)
    pc,
    \* the operation of the last step and what it returned
    event,
    \* per origin: the branch of its last dispatch and the source of the last
    \* location returned to it
    last_dispatch, last_return,
    \* per origin: whether the head of the heap was due when the call it is in
    \* was made
    call_due,
    \* the round remainder was refilled from the route and no round has been
    \* counted in rounds since
    refill_pending,
    \* how often, up to MaxDrains, a call has taken the round remainder from
    \* not empty to empty while init was set
    drains,
    \* where the priority tick thread is: "idle" (not started, at the top of its
    \* loop or in its sleep), "locked" (in _merge_priority_queue, holding
    \* manager_mutex), "blocked" (waiting for manager_mutex, which a dispatcher
    \* thread kept) or "exited"
    tick_pc,
    \* per origin: the locations returned to it so far (scenario runs only)
    served

mgr_vars == <<route, current_route_round_coords, routepool, workers_registered, rounds,
              positiontyp, last_round_prio, prio_queue, is_started, start_calc, init,
              init_mode_rounds, round_started_time, update_prio_queue_thread,
              manager_mutex, coords_to_be_ignored, stop_update_thread>>

vars == <<mgr_vars, settings, mode, hooks, now, pc, event, last_dispatch, last_return,
          call_due, refill_pending, drains, tick_pc, served>>

Self ==
    [route |-> route,
     current_route_round_coords |-> current_route_round_coords,
     routepool |-> routepool,
     workers_registered |-> workers_registered,
     rounds |-> rounds,
     positiontyp |-> positiontyp,
     last_round_prio |-> last_round_prio,
     prio_queue |-> prio_queue,
     is_started |-> is_started,
     start_calc |-> start_calc,
     init |-> init,
     init_mode_rounds |-> init_mode_rounds,
     round_started_time |-> round_started_time,
     update_prio_queue_thread |-> update_prio_queue_thread,
     manager_mutex |-> manager_mutex,
     coords_to_be_ignored |-> coords_to_be_ignored,
     stop_update_thread |-> stop_update_thread]

\* the fields of the manager after a handler that ends in s
Becomes(s) ==
    /\ route' = s.route
    /\ current_route_round_coords' = s.current_route_round_coords
    /\ routepool' = s.routepool
    /\ workers_registered' = s.workers_registered
    /\ rounds' = s.rounds
    /\ positiontyp' = s.positiontyp
    /\ last_round_prio' = s.last_round_prio
    /\ prio_queue' = s.prio_queue
    /\ is_started' = s.is_started
    /\ start_calc' = s.start_calc
    /\ init' = s.init
    /\ init_mode_rounds' = s.init_mode_rounds
    /\ round_started_time' = s.round_started_time
    /\ update_prio_queue_thread' = s.update_prio_queue_thread
    /\ manager_mutex' = s.manager_mutex
    /\ coords_to_be_ignored' = s.coords_to_be_ignored
    /\ stop_update_thread' = s.stop_update_thread

\* d[k] = v on a dict
Put(d, k, v) == [x \in DOMAIN d \cup {k} |-> IF x = k THEN v ELSE d[x]]
\* del d[k]
Del(d, k) == [x \in DOMAIN d \ {k} |-> d[x]]

\* heapq.heapify, then read in pop order: events ascend by (due_at, location)
EventLess(a, b) == a[1] < b[1] \/ (a[1] = b[1] /\ a[2] < b[2])
RECURSIVE Heapify(_)
Heapify(q) ==
    IF Len(q) = 0 THEN <<>>
    ELSE LET k == CHOOSE i \in 1..Len(q) : \A j \in 1..Len(q) : ~EventLess(q[j], q[i])
         IN  <<q[k]>> \o Heapify(DelSlice(q, k - 1, k))

\* the rebalance a step ran last, for the properties about rebalances
NoRebalance == [ran |-> FALSE, n |-> 0, rem |-> <<>>, exc |-> "none"]

(***************************************************************************)
(* Route lifecycle.                                                        *)
(***************************************************************************)
\* lines 117-127
InitRouteQueue(s) ==
    IF Len(s.route) > 0 THEN [s EXCEPT !.current_route_round_coords = s.route] ELSE s

\* recalc_route without the copy of line 266
RecalcRouteKeepsRemainder(s, new_route) ==
    [s EXCEPT !.route = new_route]

\* lines 253-268; new_route is what the planner returned (lines 260-261)
RecalcRoute(s, new_route) ==
    [s EXCEPT !.route = new_route, !.current_route_round_coords = new_route]

\* the mode's _recalc_route_workertype: a route recalculation
RecalcRouteWorkertype(s, new_route) == RecalcRoute(s, new_route)

\* lines 202-213
StartPriorityQueue(s) ==
    IF ~s.update_prio_queue_thread
       /\ (settings.delay_after_prio_event \/ mode = "iv_mitm") /\ mode # "pokestops"
    THEN [s EXCEPT !.prio_queue = <<>>, !.update_prio_queue_thread = TRUE]
    ELSE s

\* the mode's _start_routemanager: one-time startup, idempotent
StartRoutemanager(s) ==
    IF s.is_started THEN s ELSE StartPriorityQueue([s EXCEPT !.is_started = TRUE])

\* the mode's _quit_route
QuitRoute(s) == [s EXCEPT !.is_started = FALSE, !.round_started_time = FALSE]

\* lines 735-737
AddRouteToOrigin(s) == [s EXCEPT !.rounds = [o \in DOMAIN s.rounds |-> s.rounds[o] + 1]]

\* lines 591-683; planned is the route the planner would return at line 593
WorkerChangedUpdateRoutepools(s, planned) ==
    LET s1 == IF Len(s.route) = 0 THEN RecalcRouteWorkertype(s, planned) ELSE s
        n == Len(s1.workers_registered)
    IN  IF n = 0
        THEN [s |-> s1, exc |-> "none", reb |-> NoRebalance]
        ELSE Bind(UpdateLoop(s1.routepool, 1, Unbound, s1.current_route_round_coords, n),
                  LAMBDA r :
                    [s |-> [s1 EXCEPT !.routepool = r.pool],
                     exc |-> r.exc,
                     reb |-> [ran |-> TRUE, n |-> n,
                              rem |-> s1.current_route_round_coords, exc |-> r.exc]])


(***************************************************************************)
(* get_next_location(origin), lines 428-566.  One step is one activation   *)
(* of the function up to its return, its recursive call or its sleep: the  *)
(* lock is free at each of these, so other threads run in between.         *)
(*   planned   the route the planner returns if the route is recalculated  *)
(*   check_ok  the answer of _check_coords_before_returning (line 561)     *)
(* A result is the manager after the step, what the call did (tag):        *)
(*   "loc" returned loc, "none" returned None, "retry", "sleep", or the    *)
(*   name of the exception that ended the call,                            *)
(* the dispatch branch it took and the last rebalance it ran.              *)
(***************************************************************************)
Result(s, tag, loc, branch, reb) ==
    [s |-> s, tag |-> tag, loc |-> loc, branch |-> branch, reb |-> reb]

Entry(s, o) == s.routepool[PoolIndex(s.routepool, o)]

SetEntry(s, o, e) == [s EXCEPT !.routepool[PoolIndex(s.routepool, o)] = e]

\* a return without manager_mutex.release(): the calling thread keeps the lock
KeepsLock(s, o) == [s EXCEPT !.manager_mutex = o]

\* lines 452-453
GotLocation(s, o) ==
    \/ Len(s.current_route_round_coords) > 0
    \/ (o \in PoolOrigins(s.routepool) /\ Len(Entry(s, o).queue) > 0)
    \/ Len(s.prio_queue) > 0

\* the mode's _get_coords_after_finish_route: a rolling-refill mode refills the
\* round remainder from the route and answers True, any other answers False
GetCoordsAfterFinishRoute(s) ==
    IF hooks.get_coords_after_finish_route THEN InitRouteQueue(s) ELSE s

\* the condition of lines 471-474 without "or self.starve_route"
PriorityBranchTakenAlternating(s, o) ==
    /\ settings.delay_after_prio_event
    /\ ~(o \in DOMAIN s.last_round_prio /\ s.last_round_prio[o])
    /\ Len(s.prio_queue) > 0
    /\ s.prio_queue[1][1] < now

\* lines 471-474
PriorityBranchTaken(s, o) ==
    /\ settings.delay_after_prio_event
    /\ \/ ~(o \in DOMAIN s.last_round_prio /\ s.last_round_prio[o])
       \/ settings.starve_route
    /\ Len(s.prio_queue) > 0
    /\ s.prio_queue[1][1] < now

\* lines 551-552 and 562-563
DeleteCoordAfterFetch(s, c) ==
    IF hooks.delete_coord_after_fetch /\ c \in Range(s.current_route_round_coords)
    THEN [s EXCEPT !.current_route_round_coords = Remove(@, c)]
    ELSE s

\* lines 558-566 without the test of line 561
CheckAndReturnUnchecked(s, next_coord, branch, reb, check_ok) ==
    Result(DeleteCoordAfterFetch(s, next_coord), "loc", next_coord, branch, reb)

\* lines 558-566: the lock is released, then the candidate is checked
CheckAndReturn(s, next_coord, branch, reb, check_ok) ==
    IF check_ok
    THEN Result(DeleteCoordAfterFetch(s, next_coord), "loc", next_coord, branch, reb)
    ELSE Result(s, "retry", next_coord, branch, reb)

\* lines 475-480 with the last event of the heap popped instead of its head
PriorityDispatchLast(s, o, reb, check_ok) ==
    LET next_coord == s.prio_queue[Len(s.prio_queue)][2]
        s1 == [s EXCEPT !.prio_queue = SubSeq(@, 1, Len(@) - 1),
                        !.last_round_prio = Put(@, o, TRUE),
                        !.positiontyp = Put(@, o, PRIORITY)]
    IN  CheckAndReturn(s1, next_coord, "prio", reb, check_ok)

\* lines 475-480
PriorityDispatch(s, o, reb, check_ok) ==
    LET next_coord == s.prio_queue[1][2]
        s1 == [s EXCEPT !.prio_queue = Tail(@),
                        !.last_round_prio = Put(@, o, TRUE),
                        !.positiontyp = Put(@, o, PRIORITY)]
    IN  CheckAndReturn(s1, next_coord, "prio", reb, check_ok)

\* lines 549-557
PopQueue(s, o, reb, check_ok) ==
    LET e == Entry(s, o)
        next_coord == Head(e.queue)
        s1 == SetEntry(s, o, [e EXCEPT !.queue = Tail(@), !.last_access = now])
        s2 == DeleteCoordAfterFetch(s1, next_coord)
        s3 == [s2 EXCEPT !.last_round_prio = Put(@, o, FALSE)]
    IN  CheckAndReturn(s3, next_coord, "normal", reb, check_ok)

\* lines 544-557
GetNewCoord(s, o, planned, reb, check_ok) ==
    IF Len(Entry(s, o).queue) = 0
    THEN \* lines 546-547: the partitioner returns None on every path
         Bind(WorkerChangedUpdateRoutepools(s, planned),
              LAMBDA r :
                IF r.exc # "none"
                THEN Result(KeepsLock(r.s, o), r.exc, 0, "normal", r.reb)
                ELSE Result(KeepsLock(r.s, o), "none", 0, "normal",
                            IF r.reb.ran THEN r.reb ELSE reb))
    ELSE PopQueue(s, o, reb, check_ok)

\* lines 504-526: init is done, the route is replaced
PostInit(s, planned) ==
    [RecalcRouteWorkertype(s, planned) EXCEPT !.init = FALSE, !.start_calc = FALSE]

\* lines 498-542
ContinueAsUsual(s, o, planned, reb, check_ok) ==
    LET rem_empty == Len(s.current_route_round_coords) = 0
        s1 == IF s.init /\ rem_empty
              THEN [s EXCEPT !.init_mode_rounds = @ + 1] ELSE s
        queue_empty == o \in PoolOrigins(s.routepool) /\ Len(Entry(s1, o).queue) = 0
    IN  IF o \notin PoolOrigins(s.routepool)
        THEN \* self._routepool[origin] at line 503, 527, 529 or 531
             Result(KeepsLock(s1, o), "KeyError", 0, "normal", reb)
        ELSE IF s1.init /\ rem_empty /\ s1.init_mode_rounds >= settings.init_mode_rounds
           /\ queue_empty
        THEN Result(PostInit(s1, planned), "none", 0, "normal", reb)
        ELSE IF Len(s1.current_route_round_coords) > 1 /\ queue_empty
        THEN Bind(WorkerChangedUpdateRoutepools(s1, planned),
                  LAMBDA r :
                    IF r.exc # "none"
                    THEN Result(KeepsLock(r.s, o), r.exc, 0, "normal", r.reb)
                    ELSE GetNewCoord(r.s, o, planned,
                                     IF r.reb.ran THEN r.reb ELSE reb, check_ok))
        ELSE IF rem_empty /\ queue_empty
        THEN \* lines 531-541
             IF hooks.get_coords_after_finish_route
             THEN Result(GetCoordsAfterFinishRoute(s1), "retry", 0, "normal", reb)
             ELSE Result(s1, "none", 0, "normal", reb)
        ELSE GetNewCoord(s1, o, planned, reb, check_ok)

\* lines 481-557
NormalDispatch(s, o, planned, reb, check_ok) ==
    LET s1 == [s EXCEPT !.positiontyp = Put(@, o, NORMAL)]
        boundary == Len(s.route) = Len(s.current_route_round_coords)
        s2 == IF boundary /\ s.round_started_time THEN AddRouteToOrigin(s1) ELSE s1
    IN  Bind([s2 EXCEPT !.round_started_time = TRUE],
             LAMBDA s3 :
               IF boundary /\ Len(s3.route) = 0
               THEN \* line 492
                    Result(KeepsLock(s3, o), "none", 0, "normal", reb)
               ELSE ContinueAsUsual(s3, o, planned, reb, check_ok))

\* lines 466-566
Dispatch(s, o, planned, reb, check_ok) ==
    IF PriorityBranchTaken(s, o)
    THEN PriorityDispatch(s, o, reb, check_ok)
    ELSE NormalDispatch(s, o, planned, reb, check_ok)

\* lines 446-462, one pass of the wait loop, then the dispatch
WaitLoop(s, o, planned, reb, check_ok) ==
    IF s.is_started /\ ~s.init
    THEN IF Len(s.current_route_round_coords) = 0 /\ o \notin PoolOrigins(s.routepool)
         THEN \* self._routepool[origin] at line 452, between acquire and release
              Result(KeepsLock(s, o), "KeyError", 0, "-", reb)
         ELSE IF GotLocation(s, o)
              THEN Dispatch(s, o, planned, reb, check_ok)
              ELSE IF hooks.get_coords_after_finish_route
                   THEN Result(GetCoordsAfterFinishRoute(s), "sleep", 0, "-", reb)
                   ELSE Result(s, "none", 0, "-", reb)
    ELSE Dispatch(s, o, planned, reb, check_ok)

\* lines 429-444, then the rest of the function
GetNextLocation(s, o, planned, check_ok) ==
    LET s1 == IF Len(s.route) = 0 THEN RecalcRouteWorkertype(s, planned) ELSE s
    IN  Bind(IF o \notin PoolOrigins(s1.routepool)
             THEN WorkerChangedUpdateRoutepools(
                      [s1 EXCEPT !.routepool = Append(@, RoutePoolEntry(o, now))],
                      planned)
             ELSE [s |-> s1, exc |-> "none", reb |-> NoRebalance],
             LAMBDA r :
               IF r.exc # "none"
               THEN Result(r.s, r.exc, 0, "-", r.reb)
               ELSE Bind(StartRoutemanager(r.s),
                         LAMBDA s2 :
                           IF s2.start_calc
                           THEN Result(s2, "none", 0, "-", r.reb)
                           ELSE WaitLoop(s2, o, planned, r.reb, check_ok)))


(***************************************************************************)
(* The steps of the program.                                               *)
(***************************************************************************)
Event(op, origin, tag, loc, branch, reb) ==
    [op |-> op, origin |-> origin, tag |-> tag, loc |-> loc, branch |-> branch,
     reb |-> reb, prev |-> "-", fetched |-> <<>>]

\* a call has ended when it returned or raised; "calc" is the thread between
\* the release of line 522 and line 523
Ended(tag) == tag \notin {"retry", "sleep", "blocked", "calc"}

\* what a returned value adds to served[o]: the location, 0 for None, -1 for
\* an exception
ServedValue(r) == IF r.tag = "loc" THEN r.loc ELSE IF r.tag = "none" THEN 0 ELSE -1

\* the head of the heap is due (line 474)
DueHead == Len(prio_queue) > 0 /\ prio_queue[1][1] < now

\* the head of the heap was due when the call origin o is in, or now makes, was made
DueAtCall(o) == IF pc[o] = "idle" THEN DueHead ELSE call_due[o]

\* the step to s takes the round remainder from empty to a copy of the route
Refills(s) ==
    /\ Len(current_route_round_coords) = 0
    /\ Len(s.current_route_round_coords) > 0
    /\ s.current_route_round_coords = s.route

\* the step to s of a manager in its init phase takes the round remainder from
\* not empty to empty
Drains(s) ==
    /\ init
    /\ Len(current_route_round_coords) > 0
    /\ Len(s.current_route_round_coords) = 0

\* the step to s changes the round counter of an origin that stays registered
CountsRound(s) ==
    \E o \in DOMAIN rounds \cap DOMAIN s.rounds : s.rounds[o] # rounds[o]

\* the bookkeeping of a step of get_next_location(o) that ends in result r;
\* trace names what the run records: "served" (every return), "branch", "round"
\* (the locations the normal branch returned since the last refill) or nothing
AfterCall(o, r, trace) ==
    /\ Becomes(r.s)
    /\ pc' = [pc EXCEPT ![o] = IF Ended(r.tag) THEN "idle" ELSE r.tag]
    /\ event' = [Event("next", o, r.tag, r.loc, r.branch, r.reb) EXCEPT
                    !.prev = IF trace = "branch" THEN last_return[o] ELSE "-"]
    /\ last_dispatch' = IF trace = "branch" /\ r.branch # "-"
                        THEN [last_dispatch EXCEPT ![o] = r.branch]
                        ELSE last_dispatch
    /\ last_return' = IF trace = "branch" /\ r.tag = "loc"
                      THEN [last_return EXCEPT ![o] = r.branch]
                      ELSE last_return
    /\ call_due' = IF trace = "branch"
                   THEN [call_due EXCEPT ![o] = ~Ended(r.tag) /\ DueAtCall(o)]
                   ELSE call_due
    /\ refill_pending' = IF CountsRound(r.s) THEN FALSE
                         ELSE IF Refills(r.s) THEN TRUE ELSE refill_pending
    /\ drains' = IF Drains(r.s) /\ drains < MaxDrains THEN drains + 1 ELSE drains
    /\ tick_pc' = tick_pc
    /\ served' = IF trace = "served" /\ Ended(r.tag)
                 THEN [served EXCEPT ![o] = Append(@, ServedValue(r))]
                 ELSE IF trace = "round" /\ Refills(r.s)
                 THEN [w \in Origins |-> <<>>]
                 ELSE IF trace = "round" /\ r.tag = "loc" /\ r.branch = "normal"
                 THEN [served EXCEPT ![o] = Append(@, r.loc)]
                 ELSE served
    /\ UNCHANGED <<settings, mode, hooks, now>>

RoundsBelowCap == \A w \in DOMAIN rounds : rounds[w] < MaxRounds

\* the thread of origin o calls get_next_location(o), or recurses into it
CallGetNextLocation(o, planneds, answers, trace) ==
    /\ pc[o] \in {"idle", "retry"}
    /\ manager_mutex \in {"free", o}
    /\ RoundsBelowCap
    /\ \E planned \in planneds, check_ok \in answers :
          \E r \in {GetNextLocation(Self, o, planned, check_ok)} : AfterCall(o, r, trace)

\* the thread of origin o wakes from time.sleep(1) in the wait loop
WakeGetNextLocation(o, planneds, answers, trace) ==
    /\ pc[o] = "sleep"
    /\ manager_mutex \in {"free", o}
    /\ RoundsBelowCap
    /\ \E planned \in planneds, check_ok \in answers :
          \E r \in {WaitLoop(Self, o, planned, NoRebalance, check_ok)} :
              AfterCall(o, r, trace)

\* _check_coords_before_returning of a mode that refuses the ignored locations
CheckCoordsBeforeReturning(s, loc) == loc \notin s.coords_to_be_ignored

\* get_next_location(o) of such a mode: the answer given at line 561 is the
\* mode's answer for the candidate
CallCheckedGetNextLocation(o, planneds, trace) ==
    /\ pc[o] \in {"idle", "retry"}
    /\ manager_mutex \in {"free", o}
    /\ RoundsBelowCap
    /\ \E planned \in planneds, check_ok \in BOOLEAN :
          \E r \in {GetNextLocation(Self, o, planned, check_ok)} :
              /\ r.tag \in {"loc", "retry"} => check_ok = CheckCoordsBeforeReturning(Self, r.loc)
              /\ AfterCall(o, r, trace)

WakeCheckedGetNextLocation(o, planneds, trace) ==
    /\ pc[o] = "sleep"
    /\ manager_mutex \in {"free", o}
    /\ RoundsBelowCap
    /\ \E planned \in planneds, check_ok \in BOOLEAN :
          \E r \in {WaitLoop(Self, o, planned, NoRebalance, check_ok)} :
              /\ r.tag \in {"loc", "retry"} => check_ok = CheckCoordsBeforeReturning(Self, r.loc)
              /\ AfterCall(o, r, trace)

\* lines 317-322; a location is in range
AddCoordToBeRemoved(loc) ==
    /\ manager_mutex = "free"
    /\ \E s \in {[Self EXCEPT !.coords_to_be_ignored = @ \cup {loc}]} : Becomes(s)
    /\ event' = Event("ignore", "-", "none", loc, "-", NoRebalance)
    /\ UNCHANGED <<settings, mode, hooks, now, pc, last_dispatch, last_return, call_due,
                   refill_pending, drains, tick_pc, served>>

\* lines 429-433 up to the first acquire, while another thread holds
\* manager_mutex: recalc_route asks for it when the route is empty (line 262);
\* otherwise a new origin gets its routepool entry at line 432, without the
\* lock, and the partitioner asks for it at line 594
UntilFirstAcquire(s, o, waiting) ==
    IF waiting \/ Len(s.route) = 0 \/ o \in PoolOrigins(s.routepool)
    THEN Result(s, "blocked", 0, "-", NoRebalance)
    ELSE Result([s EXCEPT !.routepool = Append(@, RoutePoolEntry(o, now))],
                "blocked", 0, "-", NoRebalance)

\* another thread kept manager_mutex, so the call of origin o runs up to its
\* first acquire and waits there for good
BlockedGetNextLocation(o) ==
    /\ pc[o] \in {"idle", "retry", "sleep"}
    /\ manager_mutex \notin {"free", o}
    /\ \E r \in {UntilFirstAcquire(Self, o, pc[o] = "sleep")} : AfterCall(o, r, "none")

\* register_worker without the membership test of line 137
RegisterWorkerUntested(s, worker_name) ==
    [s |-> [s EXCEPT !.workers_registered = Append(@, worker_name),
                     !.rounds = Put(@, worker_name, 0),
                     !.positiontyp = Put(@, worker_name, 0)],
     ret |-> TRUE]

\* lines 134-154
RegisterWorker(s, worker_name) ==
    IF worker_name \in Range(s.workers_registered)
    THEN [s |-> s, ret |-> FALSE]
    ELSE [s |-> [s EXCEPT !.workers_registered = Append(@, worker_name),
                          !.rounds = Put(@, worker_name, 0),
                          !.positiontyp = Put(@, worker_name, 0)],
          ret |-> TRUE]

Register(o) ==
    /\ \E r \in {RegisterWorker(Self, o)} :
          /\ Becomes(r.s)
          /\ event' = Event("register", o, IF r.ret THEN "true" ELSE "false", 0, "-",
                            NoRebalance)
    /\ UNCHANGED <<settings, mode, hooks, now, pc, last_dispatch, last_return, call_due,
                   refill_pending, drains, tick_pc, served>>

\* lines 156-178
UnregisterWorker(s, worker_name) ==
    LET s1 == IF worker_name \in Range(s.workers_registered)
              THEN [s EXCEPT
                      !.workers_registered = Remove(@, worker_name),
                      !.routepool = SelectSeq(@, LAMBDA e : e.origin # worker_name),
                      !.rounds = Del(@, worker_name)]
              ELSE s
    IN  IF Len(s1.workers_registered) = 0 /\ s1.is_started THEN QuitRoute(s1) ELSE s1

Unregister(o) ==
    /\ \E s \in {UnregisterWorker(Self, o)} : Becomes(s)
    /\ event' = Event("unregister", o,
                      IF o \in Range(workers_registered) THEN "true" ELSE "false",
                      0, "-", NoRebalance)
    /\ UNCHANGED <<settings, mode, hooks, now, pc, last_dispatch, last_return, call_due,
                   refill_pending, drains, tick_pc, served>>

\* _filter_priority_queue_internal without the comprehension of line 422
FilterPriorityQueueInternalKeepsAll(latest) == latest

\* lines 402-426; the clustering helper is taken to return its input
FilterPriorityQueueInternal(latest) ==
    IF mode = "iv_mitm" THEN latest
    ELSE LET delete_before == IF settings.remove_from_queue_backlog >= 0
                              THEN now - settings.remove_from_queue_backlog
                              ELSE 0
         IN  SelectSeq(latest, LAMBDA to_keep : ~(to_keep[1] < delete_before))

\* lines 283-293
MergePriorityQueue(s, new_queue) ==
    [s EXCEPT !.prio_queue = Heapify(FilterPriorityQueueInternal(new_queue))]

\* lines 274-277 of the priority tick: the fetched queue, filtered and
\* heapified, replaces the heap under manager_mutex; trace "fetched" records
\* what was fetched
TickMerge(new_queues, trace) ==
    /\ update_prio_queue_thread
    /\ tick_pc = "idle"
    /\ ~stop_update_thread
    /\ manager_mutex = "free"
    /\ \E new_queue \in new_queues :
          /\ \E s \in {MergePriorityQueue(Self, new_queue)} : Becomes(s)
          /\ event' = [Event("merge", "-", "none", 0, "-", NoRebalance) EXCEPT
                          !.fetched = IF trace = "fetched" THEN new_queue ELSE <<>>]
    /\ UNCHANGED <<settings, mode, hooks, now, pc, last_dispatch, last_return, call_due,
                   refill_pending, drains, tick_pc, served>>

\* the tick thread goes on without manager_mutex
TickLockIgnored(s) == TRUE

\* line 285: self._manager_mutex.acquire() of the tick thread succeeds
TickLockFree(s) == s.manager_mutex = "free"

\* lines 285-286 of _merge_priority_queue: the tick thread takes manager_mutex
TickAcquire ==
    /\ update_prio_queue_thread
    /\ tick_pc = "idle"
    /\ ~stop_update_thread
    /\ TickLockFree(Self)
    /\ \E s \in {[Self EXCEPT !.manager_mutex = "tick"]} : Becomes(s)
    /\ tick_pc' = "locked"
    /\ event' = Event("acquire", "-", "none", 0, "-", NoRebalance)
    /\ UNCHANGED <<settings, mode, hooks, now, pc, last_dispatch, last_return, call_due,
                   refill_pending, drains, served>>

\* lines 288-291: the filtered and heapified list is assigned to _prio_queue,
\* then manager_mutex is released
TickSwap(new_queues) ==
    /\ tick_pc = "locked"
    /\ \E new_queue \in new_queues :
          \E s \in {[MergePriorityQueue(Self, new_queue) EXCEPT !.manager_mutex = "free"]} :
              Becomes(s)
    /\ tick_pc' = "idle"
    /\ event' = Event("merge", "-", "none", 0, "-", NoRebalance)
    /\ UNCHANGED <<settings, mode, hooks, now, pc, last_dispatch, last_return, call_due,
                   refill_pending, drains, served>>

\* lines 446-474 of a call that finds a location available: origin o takes
\* manager_mutex (line 466) and finds the head of the heap due (lines 471-474)
TestPriority(o) ==
    /\ pc[o] \in {"idle", "retry", "sleep"}
    /\ manager_mutex = "free"
    /\ RoundsBelowCap
    /\ Len(route) > 0 /\ o \in PoolOrigins(routepool)
    /\ is_started /\ ~init /\ ~start_calc
    /\ PriorityBranchTaken(Self, o)
    /\ \E s \in {[Self EXCEPT !.manager_mutex = o]} : Becomes(s)
    /\ pc' = [pc EXCEPT ![o] = "tested"]
    /\ event' = Event("next", o, "tested", 0, "prio", NoRebalance)
    /\ UNCHANGED <<settings, mode, hooks, now, last_dispatch, last_return, call_due,
                   refill_pending, drains, tick_pc, served>>

\* lines 475-480 and 558-566 after the test: heappop, which raises IndexError
\* on an empty heap, then release and return
PopPriority(o, answers, trace) ==
    /\ pc[o] = "tested"
    /\ \E check_ok \in answers :
          \E r \in {IF Len(prio_queue) = 0
                    THEN Result(Self, "IndexError", 0, "prio", NoRebalance)
                    ELSE PriorityDispatch([Self EXCEPT !.manager_mutex = "free"], o,
                                          NoRebalance, check_ok)} :
              AfterCall(o, r, trace)

\* lines 285 and 579: the tick thread asks for manager_mutex, in
\* _merge_priority_queue or in _check_routepools, while a dispatcher thread
\* that returned without releasing it holds it: the tick waits there for good
TickBlocked ==
    /\ update_prio_queue_thread
    /\ tick_pc = "idle"
    /\ manager_mutex # "free"
    /\ tick_pc' = "blocked"
    /\ event' = Event("acquire", "-", "blocked", 0, "-", NoRebalance)
    /\ UNCHANGED <<mgr_vars, settings, mode, hooks, now, pc, last_dispatch, last_return,
                   call_due, refill_pending, drains, served>>

\* line 273: the tick thread finds the stop event set and leaves its loop
TickExit ==
    /\ update_prio_queue_thread
    /\ tick_pc = "idle"
    /\ stop_update_thread
    /\ tick_pc' = "exited"
    /\ event' = Event("exit", "-", "none", 0, "-", NoRebalance)
    /\ UNCHANGED <<mgr_vars, settings, mode, hooks, now, pc, last_dispatch, last_return,
                   call_due, refill_pending, drains, served>>

\* lines 112-115: the stop event is set if there is a tick thread; the join
\* of line 115 returns once the thread has exited
StopRoutemanager ==
    /\ ~stop_update_thread
    /\ \E s \in {IF update_prio_queue_thread
                  THEN [Self EXCEPT !.stop_update_thread = TRUE]
                  ELSE Self} : Becomes(s)
    /\ event' = Event("stop", "-", "none", 0, "-", NoRebalance)
    /\ UNCHANGED <<settings, mode, hooks, now, pc, last_dispatch, last_return, call_due,
                   refill_pending, drains, tick_pc, served>>

\* lines 726-730
GetRouteStatus(s) ==
    IF Len(s.route) > 0
    THEN <<Len(s.route) - Len(s.current_route_round_coords), Len(s.route)>>
    ELSE <<1, 1>>

\* recalc_route called from outside the dispatcher (lines 253-268)
Recalc(new_routes) ==
    /\ manager_mutex = "free"
    /\ \E new_route \in new_routes :
          \E s \in {RecalcRoute(Self, new_route)} : Becomes(s)
    /\ event' = Event("recalc", "-", "none", 0, "-", NoRebalance)
    /\ UNCHANGED <<settings, mode, hooks, now, pc, last_dispatch, last_return, call_due,
                   refill_pending, drains, tick_pc, served>>

\* the default of the parameter timeout of _check_routepools (line 577)
CheckRoutepoolsTimeout == 300

\* _check_routepools deleting the entries not accessed for the timeout or more
CheckRoutepoolsAtTimeout(s, planned) ==
    LET kept == SelectSeq(s.routepool,
                          LAMBDA e : ~(now - e.last_access >= CheckRoutepoolsTimeout))
    IN  IF kept = s.routepool
        THEN [s |-> s, exc |-> "none", reb |-> NoRebalance, changed |-> FALSE]
        ELSE Bind(WorkerChangedUpdateRoutepools([s EXCEPT !.routepool = kept], planned),
                  LAMBDA r : [s |-> r.s, exc |-> r.exc, reb |-> r.reb, changed |-> TRUE])

\* lines 577-589: the entries not accessed for more than the timeout are
\* deleted under manager_mutex; if any was (routepool_changed), the partitioner
\* is called; planned is what the planner returns should the route be empty
CheckRoutepools(s, planned) ==
    LET kept == SelectSeq(s.routepool,
                          LAMBDA e : ~(now - e.last_access > CheckRoutepoolsTimeout))
    IN  IF kept = s.routepool
        THEN [s |-> s, exc |-> "none", reb |-> NoRebalance, changed |-> FALSE]
        ELSE Bind(WorkerChangedUpdateRoutepools([s EXCEPT !.routepool = kept], planned),
                  LAMBDA r : [s |-> r.s, exc |-> r.exc, reb |-> r.reb, changed |-> TRUE])

\* line 281 of the priority tick; an exception ends the thread.  The event
\* says in its branch whether the partitioner was called.
TickCheckRoutepools(planneds) ==
    /\ update_prio_queue_thread
    /\ tick_pc = "idle"
    /\ manager_mutex = "free"
    /\ \E planned \in planneds :
          \E r \in {CheckRoutepools(Self, planned)} :
              /\ Becomes(r.s)
              /\ event' = Event("reap", "-", r.exc, 0,
                                IF r.changed THEN "rebalance" ELSE "-", r.reb)
              /\ tick_pc' = IF r.exc = "none" THEN tick_pc ELSE "exited"
    /\ UNCHANGED <<settings, mode, hooks, now, pc, last_dispatch, last_return, call_due,
                   refill_pending, drains, served>>

\* nothing happens for as long as the timeout of _check_routepools
LongIdle ==
    /\ now <= MaxTime
    /\ now' = now + CheckRoutepoolsTimeout
    /\ event' = Event("advance", "-", "none", 0, "-", NoRebalance)
    /\ UNCHANGED <<mgr_vars, settings, mode, hooks, pc, last_dispatch, last_return, call_due,
                   refill_pending, drains, tick_pc, served>>

\* time passes
Advance ==
    /\ now < MaxTime
    /\ now' = now + 1
    /\ event' = Event("advance", "-", "none", 0, "-", NoRebalance)
    /\ UNCHANGED <<mgr_vars, settings, mode, hooks, pc, last_dispatch, last_return, call_due,
                   refill_pending, drains, tick_pc, served>>


(***************************************************************************)
(* The manager after __init__ (lines 37-104, 117-127) for a planned route, *)
(* and the specifications.                                                 *)
(***************************************************************************)
EmptyDict == [x \in {} |-> 0]

RouteOf(k) == [i \in 1..k |-> i]

ConstructedFor(planned, the_settings, the_mode, the_hooks, the_init) ==
    /\ route = planned
    /\ current_route_round_coords = planned
    /\ routepool = <<>>
    /\ workers_registered = <<>>
    /\ rounds = EmptyDict
    /\ positiontyp = EmptyDict
    /\ last_round_prio = EmptyDict
    /\ prio_queue = <<>>
    /\ is_started = FALSE
    /\ start_calc = FALSE
    /\ init = the_init
    /\ init_mode_rounds = 0
    /\ round_started_time = FALSE
    /\ update_prio_queue_thread = FALSE
    /\ manager_mutex = "free"
    /\ settings = the_settings
    /\ mode = the_mode
    /\ hooks = the_hooks
    /\ now = 0
    /\ pc = [o \in Origins |-> "idle"]
    /\ event = Event("init", "-", "none", 0, "-", NoRebalance)
    /\ last_dispatch = [o \in Origins |-> "none"]
    /\ last_return = [o \in Origins |-> "none"]
    /\ call_due = [o \in Origins |-> FALSE]
    /\ refill_pending = FALSE
    /\ drains = 0
    /\ tick_pc = "idle"
    /\ coords_to_be_ignored = {}
    /\ stop_update_thread = FALSE
    /\ served = [o \in Origins |-> <<>>]

\* a manager constructed with init = False
Constructed(planned, the_settings, the_mode, the_hooks) ==
    ConstructedFor(planned, the_settings, the_mode, the_hooks, FALSE)

\* settings without the priority overlay
NoPrioSettings ==
    [delay_after_prio_event |-> FALSE, starve_route |-> FALSE,
     remove_from_queue_backlog |-> 0, init_mode_rounds |-> 1]

\* a mode that consumes the round (delete_coord_after_fetch) and refills it
RollingHooks == [delete_coord_after_fetch |-> TRUE, get_coords_after_finish_route |-> TRUE]

Workers == {"W1", "W2"}

(***************************************************************************)
(* Spec: the registry and the dispatcher without the priority overlay, two *)
(* workers on a short route, every candidate accepted.                     *)
(***************************************************************************)
\* the route of Spec has RegRoute locations
RegRoute == 2

Init ==
    \E d \in BOOLEAN :
        Constructed(RouteOf(RegRoute), NoPrioSettings, "mon_mitm",
                    [delete_coord_after_fetch |-> d,
                     get_coords_after_finish_route |-> TRUE])

Next ==
    \/ \E o \in Workers : Register(o)
    \/ \E o \in Workers : Unregister(o)
    \/ \E o \in Workers : CallGetNextLocation(o, {route}, {TRUE}, "none")
    \/ \E o \in Workers : WakeGetNextLocation(o, {route}, {TRUE}, "none")
    \/ \E o \in Workers : BlockedGetNextLocation(o)

Spec == Init /\ [][Next]_vars

(***************************************************************************)
(* SpecPart: the same steps on a route long enough for the partitioner's   *)
(* shrunk and grown branches.                                              *)
(***************************************************************************)
\* the route of SpecPart has MaxRoute locations
MaxRoute == 4

InitPart ==
    \E d \in BOOLEAN :
        Constructed(RouteOf(MaxRoute), NoPrioSettings, "mon_mitm",
                    [delete_coord_after_fetch |-> d,
                     get_coords_after_finish_route |-> TRUE])

SpecPart == InitPart /\ [][Next]_vars

(***************************************************************************)
(* SpecA: scenario A for every route length up to MaxRouteA: one worker,   *)
(* no priority settings, a rolling-refill mode, every candidate accepted.  *)
(***************************************************************************)
MaxRouteA == 4
\* the run records up to MaxServed returns per origin
MaxServed == 9

InitA ==
    \E k \in 1..MaxRouteA :
        Constructed(RouteOf(k), NoPrioSettings, "mon_mitm", RollingHooks)

RegisterA == workers_registered = <<>> /\ Register("W1")

CallA ==
    /\ workers_registered = <<"W1">>
    /\ Len(served["W1"]) < MaxServed
    /\ \/ CallGetNextLocation("W1", {route}, {TRUE}, "served")
       \/ WakeGetNextLocation("W1", {route}, {TRUE}, "served")

NextA == RegisterA \/ CallA \/ Advance

SpecA == InitA /\ [][NextA]_vars

(***************************************************************************)
(* SpecB: scenario B: route [L1..L6], W1 registers, then W2, and the two   *)
(* call get_next_location in turn, W1 first.                               *)
(***************************************************************************)
RouteB == 6

InitB == Constructed(RouteOf(RouteB), NoPrioSettings, "mon_mitm", RollingHooks)

\* W2 registers after W1 and before its own first call
RegisterB ==
    \/ workers_registered = <<>> /\ Register("W1")
    \/ workers_registered = <<"W1">> /\ Register("W2")

\* whose turn it is: a call in progress goes on, else W1 iff both have had
\* the same number of returns
TurnB(o) ==
    /\ \A w \in Workers \ {o} : pc[w] = "idle"
    /\ \/ pc[o] # "idle"
       \/ o = "W1" /\ Len(served["W1"]) = Len(served["W2"])
       \/ o = "W2" /\ Len(served["W2"]) < Len(served["W1"])

CallB ==
    \E o \in Workers :
        /\ o \in Range(workers_registered)
        /\ TurnB(o)
        /\ Len(served[o]) < MaxServed
        /\ \/ CallGetNextLocation(o, {route}, {TRUE}, "served")
           \/ WakeGetNextLocation(o, {route}, {TRUE}, "served")

BlockedB == \E o \in Workers : o \in Range(workers_registered) /\ BlockedGetNextLocation(o)

NextB == RegisterB \/ CallB \/ BlockedB \/ Advance

SpecB == InitB /\ [][NextB]_vars

(***************************************************************************)
(* SpecPrio: the priority overlay.  The priority tick replaces the heap by *)
(* a fetched queue, time passes, candidates may be rejected.               *)
(***************************************************************************)
PrioRoute == 2
\* the location of the priority events, not on the route
PrioLocs == {PrioRoute + 1}
PrioEvents == (0..MaxTime) \X PrioLocs
\* what _retrieve_latest_priority_queue may return
PrioQueues == UNION {[1..k -> PrioEvents] : k \in 0..MaxPrio}

PrioWorkers == {"W1"}

InitPrio ==
    \E starve \in BOOLEAN, backlog \in {0, MaxTime} :
        Constructed(RouteOf(PrioRoute),
                    [delay_after_prio_event |-> TRUE, starve_route |-> starve,
                     remove_from_queue_backlog |-> backlog, init_mode_rounds |-> 1],
                    "mon_mitm", RollingHooks)

NextPrio ==
    \/ \E o \in PrioWorkers : Register(o)
    \/ \E o \in PrioWorkers : Unregister(o)
    \/ \E o \in PrioWorkers : CallGetNextLocation(o, {route}, BOOLEAN, "branch")
    \/ \E o \in PrioWorkers : WakeGetNextLocation(o, {route}, BOOLEAN, "branch")
    \/ TickMerge(PrioQueues, "none")
    \/ Advance

SpecPrio == InitPrio /\ [][NextPrio]_vars

(***************************************************************************)
(* SpecTick: the priority tick seen from outside.  One worker on a short   *)
(* route; every tick records the queue it fetched; every candidate is      *)
(* accepted.                                                               *)
(***************************************************************************)
InitTick ==
    \E backlog \in {0, MaxTime}, the_mode \in {"mon_mitm", "iv_mitm"} :
        Constructed(RouteOf(PrioRoute),
                    [delay_after_prio_event |-> TRUE, starve_route |-> FALSE,
                     remove_from_queue_backlog |-> backlog, init_mode_rounds |-> 1],
                    the_mode, RollingHooks)

NextTick ==
    \/ \E o \in PrioWorkers : Register(o)
    \/ \E o \in PrioWorkers : CallGetNextLocation(o, {route}, {TRUE}, "none")
    \/ \E o \in PrioWorkers : WakeGetNextLocation(o, {route}, {TRUE}, "none")
    \/ TickMerge(PrioQueues, "fetched")
    \/ Advance

SpecTick == InitTick /\ [][NextTick]_vars

(***************************************************************************)
(* SpecIgnore: a mode whose _check_coords_before_returning refuses the     *)
(* locations of _coords_to_be_ignored.  One worker, the priority overlay   *)
(* on, locations are added to the ignored set at any time.                 *)
(***************************************************************************)
InitIgnore ==
    Constructed(RouteOf(PrioRoute),
                [delay_after_prio_event |-> TRUE, starve_route |-> FALSE,
                 remove_from_queue_backlog |-> MaxTime, init_mode_rounds |-> 1],
                "mon_mitm", RollingHooks)

NextIgnore ==
    \/ \E o \in PrioWorkers : Register(o)
    \/ \E o \in PrioWorkers : CallCheckedGetNextLocation(o, {route}, "none")
    \/ \E o \in PrioWorkers : WakeCheckedGetNextLocation(o, {route}, "none")
    \/ \E loc \in Range(route) \cup PrioLocs : AddCoordToBeRemoved(loc)
    \/ TickMerge(PrioQueues, "none")
    \/ Advance

SpecIgnore == InitIgnore /\ [][NextIgnore]_vars

(***************************************************************************)
(* SpecReap: the priority overlay with the idle reaper of the tick thread  *)
(* and a pause longer than the reaper's timeout.                           *)
(***************************************************************************)
InitReap ==
    \E starve \in BOOLEAN :
        Constructed(RouteOf(PrioRoute),
                    [delay_after_prio_event |-> TRUE, starve_route |-> starve,
                     remove_from_queue_backlog |-> MaxTime, init_mode_rounds |-> 1],
                    "mon_mitm", RollingHooks)

NextReap ==
    \/ \E o \in PrioWorkers : Register(o)
    \/ \E o \in PrioWorkers : CallGetNextLocation(o, {route}, {TRUE}, "none")
    \/ \E o \in PrioWorkers : WakeGetNextLocation(o, {route}, {TRUE}, "none")
    \/ TickMerge(PrioQueues, "none")
    \/ TickCheckRoutepools({route})
    \/ Advance
    \/ LongIdle

SpecReap == InitReap /\ [][NextReap]_vars

(***************************************************************************)
(* SpecStatus: routes of every length up to MaxStatusRoute, the empty one  *)
(* included, replaced by recalc_route at any time; one worker; priority    *)
(* events at a location of the route.                                      *)
(***************************************************************************)
MaxStatusRoute == 2
StatusRoutes == {RouteOf(k) : k \in 0..MaxStatusRoute}
\* priority events at the first location of the route
StatusQueues == {<<>>} \cup {<<<<t, 1>>>> : t \in 0..MaxTime}

InitStatus ==
    \E planned \in StatusRoutes :
        Constructed(planned,
                    [delay_after_prio_event |-> TRUE, starve_route |-> FALSE,
                     remove_from_queue_backlog |-> MaxTime, init_mode_rounds |-> 1],
                    "mon_mitm", RollingHooks)

NextStatus ==
    \/ \E o \in PrioWorkers : Register(o)
    \/ \E o \in PrioWorkers : CallGetNextLocation(o, StatusRoutes, {TRUE}, "none")
    \/ \E o \in PrioWorkers : WakeGetNextLocation(o, StatusRoutes, {TRUE}, "none")
    \/ Recalc(StatusRoutes)
    \/ TickMerge(StatusQueues, "none")
    \/ Advance

SpecStatus == InitStatus /\ [][NextStatus]_vars

(***************************************************************************)
(* SpecSwap: the heap between the tick thread and a dispatcher, at the     *)
(* grain of the lock: the tick takes manager_mutex and then swaps the      *)
(* heap; the dispatcher tests the head of the heap and then pops it.       *)
(***************************************************************************)
InitSwap ==
    Constructed(RouteOf(PrioRoute),
                [delay_after_prio_event |-> TRUE, starve_route |-> FALSE,
                 remove_from_queue_backlog |-> MaxTime, init_mode_rounds |-> 1],
                "mon_mitm", RollingHooks)

NextSwap ==
    \/ \E o \in PrioWorkers : Register(o)
    \/ \E o \in PrioWorkers : CallGetNextLocation(o, {route}, {TRUE}, "none")
    \/ \E o \in PrioWorkers : WakeGetNextLocation(o, {route}, {TRUE}, "none")
    \/ \E o \in PrioWorkers : TestPriority(o)
    \/ \E o \in PrioWorkers : PopPriority(o, {TRUE}, "none")
    \/ TickAcquire
    \/ TickSwap(PrioQueues)
    \/ Advance

SpecSwap == InitSwap /\ [][NextSwap]_vars

(***************************************************************************)
(* SpecStop: stop_routemanager against the tick thread and dispatchers     *)
(* that go on calling.  The tick thread is scheduled: if it can leave its  *)
(* loop it eventually does.                                                *)
(***************************************************************************)
InitStop ==
    Constructed(RouteOf(PrioRoute),
                [delay_after_prio_event |-> TRUE, starve_route |-> FALSE,
                 remove_from_queue_backlog |-> MaxTime, init_mode_rounds |-> 1],
                "mon_mitm", RollingHooks)

NextStop ==
    \/ \E o \in PrioWorkers : Register(o)
    \/ \E o \in PrioWorkers : CallGetNextLocation(o, {route}, {TRUE}, "none")
    \/ \E o \in PrioWorkers : WakeGetNextLocation(o, {route}, {TRUE}, "none")
    \/ TickMerge(PrioQueues, "none")
    \/ TickBlocked
    \/ TickExit
    \/ StopRoutemanager
    \/ Advance

SpecStop == InitStop /\ [][NextStop]_vars /\ WF_vars(TickExit)

(***************************************************************************)
(* SpecBranch: the choice of the dispatch branch.  An IV mode, whose tick  *)
(* thread runs with or without delay_after_prio_event and keeps every      *)
(* fetched event; one worker; every candidate accepted.                    *)
(***************************************************************************)
InitBranch ==
    \E delay \in BOOLEAN, starve \in BOOLEAN :
        Constructed(RouteOf(PrioRoute),
                    [delay_after_prio_event |-> delay, starve_route |-> starve,
                     remove_from_queue_backlog |-> 0, init_mode_rounds |-> 1],
                    "iv_mitm", RollingHooks)

NextBranch ==
    \/ \E o \in PrioWorkers : Register(o)
    \/ \E o \in PrioWorkers : CallGetNextLocation(o, {route}, {TRUE}, "none")
    \/ \E o \in PrioWorkers : WakeGetNextLocation(o, {route}, {TRUE}, "none")
    \/ TickMerge(PrioQueues, "none")
    \/ Advance

SpecBranch == InitBranch /\ [][NextBranch]_vars

(***************************************************************************)
(* SpecEvict: the idle reaper over two workers and routes of every length  *)
(* up to MaxStatusRoute, the empty one included; the database has no       *)
(* priority events; the planner may return any route.                      *)
(***************************************************************************)
InitEvict ==
    \E planned \in StatusRoutes :
        Constructed(planned,
                    [delay_after_prio_event |-> TRUE, starve_route |-> FALSE,
                     remove_from_queue_backlog |-> 0, init_mode_rounds |-> 1],
                    "mon_mitm", RollingHooks)

NextEvict ==
    \/ \E o \in Workers : Register(o)
    \/ \E o \in Workers : CallGetNextLocation(o, StatusRoutes, {TRUE}, "none")
    \/ \E o \in Workers : WakeGetNextLocation(o, StatusRoutes, {TRUE}, "none")
    \/ \E o \in Workers : BlockedGetNextLocation(o)
    \/ TickMerge({<<>>}, "none")
    \/ TickCheckRoutepools(StatusRoutes)
    \/ Advance
    \/ LongIdle

SpecEvict == InitEvict /\ [][NextEvict]_vars

(***************************************************************************)
(* SpecInit: a manager constructed with init = True, two workers, a mode   *)
(* that consumes the round; init_mode_rounds is 1 or MaxInitRounds.        *)
(***************************************************************************)
MaxInitRounds == 2

InitInit ==
    \E n \in {1, MaxInitRounds}, refill \in BOOLEAN :
        ConstructedFor(RouteOf(RegRoute),
                       [delay_after_prio_event |-> FALSE, starve_route |-> FALSE,
                        remove_from_queue_backlog |-> 0, init_mode_rounds |-> n],
                       "mon_mitm",
                       [delete_coord_after_fetch |-> TRUE,
                        get_coords_after_finish_route |-> refill],
                       TRUE)

SpecInit == InitInit /\ [][Next]_vars

(***************************************************************************)
(* SpecCalc: the manager of SpecInit with the post-init transition in two  *)
(* steps: up to the release of line 522, with _start_calc set, and from    *)
(* there to the return, where line 523 resets it.  Other threads run in    *)
(* between.                                                                *)
(***************************************************************************)
\* get_next_location(o) up to its return or, when it runs the post-init
\* transition, up to the release of line 522
CallGetNextLocationToRelease(o, planneds, answers) ==
    /\ pc[o] \in {"idle", "retry"}
    /\ manager_mutex \in {"free", o}
    /\ RoundsBelowCap
    /\ \E planned \in planneds, check_ok \in answers :
          \E r \in {GetNextLocation(Self, o, planned, check_ok)} :
              AfterCall(o,
                        IF init /\ ~r.s.init
                        THEN [r EXCEPT !.s.start_calc = TRUE, !.tag = "calc"]
                        ELSE r,
                        "none")

\* lines 523-526: the thread that ran the post-init transition resets
\* _start_calc and returns None
EndPostInit(o) ==
    /\ pc[o] = "calc"
    /\ AfterCall(o, Result([Self EXCEPT !.start_calc = FALSE], "none", 0, "normal",
                           NoRebalance),
                 "none")

NextCalc ==
    \/ \E o \in Workers : Register(o)
    \/ \E o \in Workers : Unregister(o)
    \/ \E o \in Workers : CallGetNextLocationToRelease(o, {route}, {TRUE})
    \/ \E o \in Workers : EndPostInit(o)
    \/ \E o \in Workers : WakeGetNextLocation(o, {route}, {TRUE}, "none")
    \/ \E o \in Workers : BlockedGetNextLocation(o)

SpecCalc == InitInit /\ [][NextCalc]_vars

(***************************************************************************)
(* SpecRound: the steps of Spec for a mode that consumes the round         *)
(* (delete_coord_after_fetch) and refills it; the run records, per origin, *)
(* the locations the normal branch returned since the last refill.         *)
(***************************************************************************)
\* the route of SpecRound has RoundRoute locations
RoundRoute == 3

InitRound == Constructed(RouteOf(RoundRoute), NoPrioSettings, "mon_mitm", RollingHooks)

NextRound ==
    \/ \E o \in Workers : Register(o)
    \/ \E o \in Workers : Unregister(o)
    \/ \E o \in Workers :
          /\ Len(served[o]) < MaxServed
          /\ \/ CallGetNextLocation(o, {route}, {TRUE}, "round")
             \/ WakeGetNextLocation(o, {route}, {TRUE}, "round")
    \/ \E o \in Workers : BlockedGetNextLocation(o)

SpecRound == InitRound /\ [][NextRound]_vars

(***************************************************************************)
(* The claims.                                                             *)
(***************************************************************************)
\* q is an initial part of r
IsPrefix(q, r) == Len(q) <= Len(r) /\ \A i \in 1..Len(q) : q[i] = r[i]

\* the first k elements of q, or all of q
Take(q, k) == SubSeq(q, 1, IF Len(q) < k THEN Len(q) ELSE k)

\* the subroute of origin o in the routepool
SubrouteOf(o) == routepool[PoolIndex(routepool, o) + 1].subroute

\* C1: a single worker on a route of k distinct locations is returned
\* L1, L2, ..., Lk, L1, L2, ... by its successive calls: the i-th value
\* returned is the route element at position ((i - 1) mod k) + 1.
C1_ServedCyclic ==
    \A i \in 1..Len(served["W1"]) : served["W1"][i] = route[((i - 1) % Len(route)) + 1]

NextStepOf(o) == event'.op = "next" /\ event'.origin = o

\* C2: with starve_route = false, a call of next(o) that returns a location
\* of the priority heap is never the next returning call after one that
\* returned a location of the priority heap to o.
C2_NoTwoPriorityReturns ==
    [][\A o \in Origins :
         (/\ NextStepOf(o)
          /\ ~settings.starve_route
          /\ event'.tag = "loc"
          /\ event'.branch = "prio") => last_return[o] # "prio"]_vars

\* C3 as stated: with starve_route = true, a call of next(o) made while the
\* head of the heap is due returns the location of a priority event.
C3_DueCallReturnsPriority ==
    [][\A o \in Origins :
         (/\ NextStepOf(o)
          /\ settings.starve_route
          /\ DueAtCall(o)
          /\ Ended(event'.tag)) => event'.tag = "loc" /\ event'.branch = "prio"]_vars

\* C3: with starve_route = true, every activation of next(o), the call or a
\* recursion of it, that reaches the dispatch step while the head of the heap
\* is due takes the priority branch: it pops the head of the heap as its
\* candidate, and it either returns that location or, the candidate being
\* rejected, recurses.
C3_DueDispatchIsPriority ==
    [][\A o \in Origins :
         (/\ NextStepOf(o)
          /\ settings.starve_route
          /\ DueHead
          /\ event'.branch # "-") =>
            /\ event'.branch = "prio"
            /\ event'.loc = prio_queue[1][2]
            /\ prio_queue' = Tail(prio_queue)
            /\ event'.tag \in {"loc", "retry"}
            /\ positiontyp'[o] = PRIORITY
            /\ last_round_prio'[o]]_vars

\* C3 happens: under starve_route a call has returned a priority location to
\* an origin whose previous location came from the heap as well
C3_Witness ==
    /\ settings.starve_route
    /\ event.op = "next" /\ event.tag = "loc" /\ event.branch = "prio"
    /\ event.loc \in PrioLocs
    /\ event.prev = "prio"

\* no origin is twice in workers_registered
NoDuplicateWorker ==
    \A i, j \in 1..Len(workers_registered) :
        workers_registered[i] = workers_registered[j] => i = j

\* C4: register(o) of a registered origin returns false and leaves
\* workers_registered, rounds, position_type and routepool as they are;
\* register(o) of any other origin returns true, appends o once to
\* workers_registered and sets rounds[o] and position_type[o] to 0;
\* workers_registered never holds an origin twice.
C4_RegisterIdempotent ==
    /\ []NoDuplicateWorker
    /\ [][\A o \in Origins :
            (event'.op = "register" /\ event'.origin = o) =>
               IF o \in Range(workers_registered)
               THEN /\ event'.tag = "false"
                    /\ UNCHANGED <<workers_registered, rounds, positiontyp, routepool>>
               ELSE /\ event'.tag = "true"
                    /\ workers_registered' = Append(workers_registered, o)
                    /\ rounds' = Put(rounds, o, 0)
                    /\ positiontyp' = Put(positiontyp, o, 0)
                    /\ routepool' = routepool]_vars

\* C4 happens: a registered origin that has finished a round registered again
C4_Witness ==
    /\ event.op = "register" /\ event.tag = "false"
    /\ rounds[event.origin] > 0

\* C5: after unregister(o) of a registered origin, o is in none of
\* workers_registered, rounds, routepool, position_type and last_round_prio.
C5_UnregisterForgets ==
    (event.op = "unregister" /\ event.tag = "true") =>
        /\ event.origin \notin Range(workers_registered)
        /\ event.origin \notin DOMAIN rounds
        /\ event.origin \notin PoolOrigins(routepool)
        /\ event.origin \notin DOMAIN positiontyp
        /\ event.origin \notin DOMAIN last_round_prio

\* the elements of rem at the indices [i*ceil(m/n), (i+1)*ceil(m/n)) below m
ClippedSlice(rem, i, n) ==
    LET m == Len(rem)
        lo == i * Ceil(m, n)
        hi == (i + 1) * Ceil(m, n)
    IN  IF lo < m THEN Slice(rem, lo, IF hi < m THEN hi ELSE m) ELSE <<>>

\* C6: in every rebalance the i-th origin of the routepool receives the
\* elements of the remainder at the indices [i*ceil(m/n), (i+1)*ceil(m/n))
\* clipped to m; no index >= m is read and the rebalance does not fail.
C6_SlicesClipped ==
    event.reb.ran =>
        /\ event.reb.exc = "none"
        /\ \A i \in 0..(Len(routepool) - 1) :
              /\ ~SubrouteReadFails(i, Len(event.reb.rem), event.reb.n)
              /\ NewSubroute(event.reb.rem, i, event.reb.n) =
                     ClippedSlice(event.reb.rem, i, event.reb.n)

\* C7: after every rebalance that ran to its end over a remainder of even
\* length, every element of that remainder is in the subroute of some origin.
C7_SubroutesCover ==
    (event.reb.ran /\ event.reb.exc = "none" /\ Len(event.reb.rem) % 2 = 0) =>
        Range(event.reb.rem) \subseteq
            UNION {Range(routepool[k].subroute) : k \in 1..Len(routepool)}

\* C8: after every rebalance that ran to its end, the subroute of each
\* routepool entry is the slice computed for it in that rebalance, and the
\* subroutes of two distinct entries share no location.
C8_SubrouteIsSlice ==
    (event.reb.ran /\ event.reb.exc = "none") =>
        /\ \A k \in 1..Len(routepool) :
              routepool[k].subroute = NewSubroute(event.reb.rem, k - 1, event.reb.n)
        /\ \A k, l \in 1..Len(routepool) :
              k # l => Range(routepool[k].subroute) \cap Range(routepool[l].subroute) = {}

\* C10: when no call of next() is in progress, every element of the queue of
\* a routepool entry is an element of the subroute of that entry.
C10_QueueWithinSubroute ==
    (\A o \in Origins : pc[o] = "idle") =>
        \A k \in 1..Len(routepool) :
            Range(routepool[k].queue) \subseteq Range(routepool[k].subroute)

(***************************************************************************)
(* Round accounting.                                                       *)
(***************************************************************************)
\* this step takes the round remainder from empty to a full copy of the route
RefillStep ==
    /\ Len(current_route_round_coords) = 0
    /\ Len(current_route_round_coords') > 0
    /\ current_route_round_coords' = route'

\* C11: the round counter of an origin that stays registered changes only by
\* one, and only for a refill of the round remainder (in the step of the refill
\* or in the first change after it): never inside a round, never when
\* delete_coord_after_fetch is false, never twice for one refill.
C11_RoundsCountRefills ==
    [][\A o \in DOMAIN rounds \cap DOMAIN rounds' :
          rounds'[o] # rounds[o] =>
             /\ rounds'[o] = rounds[o] + 1
             /\ refill_pending \/ RefillStep]_vars
(***************************************************************************)
(* The registry and the partition.                                         *)
(***************************************************************************)
\* C20: directly after a register(o) that returned true, or an unregister(o)
\* of a registered origin, that leaves some worker registered, the subroute of
\* the i-th routepool entry is the i-th slice of the round remainder for the
\* new number of registered workers.
C20_RegistryRebalances ==
    (event.op \in {"register", "unregister"} /\ event.tag = "true"
       /\ Len(workers_registered) > 0) =>
        \A k \in 1..Len(routepool) :
            routepool[k].subroute =
                ClippedSlice(current_route_round_coords, k - 1, Len(workers_registered))
\* C19: a step that inserts or deletes a routepool entry, or changes a queue,
\* is taken while no other thread holds manager_mutex: the lock is free for the
\* acting thread or already its own.
C19_PoolChangesUnderLock ==
    [][routepool' # routepool => manager_mutex \in {"free", event'.origin}]_vars

(***************************************************************************)
(* The priority tick.                                                      *)
(***************************************************************************)
\* the events of queue q whose time is at least t
NotBefore(q, t) == SelectSeq(q, LAMBDA e : ~(e[1] < t))

\* C14: a due event of the heap is not dropped by a heap refresh: an event
\* with due_at < now that the tick fetches again is still in the heap after
\* the tick, where a dispatcher can return it.
C14_DueEventSurvivesTick ==
    [][event'.op = "merge" =>
          \A i \in 1..Len(prio_queue) :
              (prio_queue[i][1] < now /\ prio_queue[i] \in Range(event'.fetched)) =>
                  prio_queue[i] \in Range(prio_queue')]_vars

\* a tick of a non-IV mode with remove_from_queue_backlog = 0 has just run
TickWithoutBacklog ==
    event.op = "merge" /\ mode # "iv_mitm" /\ settings.remove_from_queue_backlog = 0

C12_IgnoredNeverReturned ==
    (event.op = "next" /\ event.tag \in {"loc", "retry"}
       /\ event.loc \in Range(route) \cup PrioLocs) =>
        /\ event.tag = "loc" <=> event.loc \notin coords_to_be_ignored
        /\ event.tag = "retry" => pc[event.origin] = "retry"

\* a call returned a location of the priority heap while a location of the
\* route is ignored
C12_Witness ==
    /\ event.op = "next" /\ event.tag = "loc" /\ event.branch = "prio"
    /\ coords_to_be_ignored \cap Range(route) # {}

(***************************************************************************)
(* The idle reaper.                                                        *)
(***************************************************************************)
\* C18: the reaper does not evict an origin that has just been given a
\* location, from its queue or from the priority heap: a step of
\* _check_routepools that directly follows a call of next(o) that returned a
\* location leaves the routepool entry of o in place.
C18_ServedOriginNotReaped ==
    [][(event'.op = "reap" /\ event.op = "next" /\ event.tag = "loc"
          /\ event.origin \in PoolOrigins(routepool)) =>
              event.origin \in PoolOrigins(routepool')]_vars

(***************************************************************************)
(* The route status.                                                       *)
(***************************************************************************)
\* how often x occurs in q
Count(q, x) == Cardinality({i \in 1..Len(q) : q[i] = x})

\* q is a sub-multiset of r
SubMultiset(q, r) == \A x \in Range(q) : Count(q, x) <= Count(r, x)

\* whenever manager_mutex is free the round remainder is a sub-multiset of the
\* route and get_route_status returns (|route| - |remainder|, |route|) with
\* 0 <= first component <= |route| for a route that is not empty and (1, 1)
\* for the empty route
StatusOfRoute ==
    manager_mutex = "free" =>
        /\ SubMultiset(current_route_round_coords, route)
        /\ Len(route) > 0 =>
              /\ GetRouteStatus(Self) =
                     <<Len(route) - Len(current_route_round_coords), Len(route)>>
              /\ GetRouteStatus(Self)[1] \in 0..Len(route)
        /\ Len(route) = 0 => GetRouteStatus(Self) = <<1, 1>>

\* C17 as stated: the above, and get_route_status returns (1, 1) exactly when
\* the route is empty.
C17_StatusOneOneOnlyEmpty ==
    /\ StatusOfRoute
    /\ (manager_mutex = "free" /\ GetRouteStatus(Self) = <<1, 1>>) => Len(route) = 0

\* C17: whenever manager_mutex is free the round remainder is a sub-multiset of
\* the route, also across recalc_route, and get_route_status returns
\* (|route| - |remainder|, |route|), first component within 0..|route|, for a
\* route that is not empty and (1, 1) for the empty route; (1, 1) is also what
\* a route of one location with an empty remainder returns.
C17_StatusWithinRoute ==
    /\ StatusOfRoute
    /\ (manager_mutex = "free" /\ GetRouteStatus(Self) = <<1, 1>>) =>
          \/ Len(route) = 0
          \/ Len(route) = 1 /\ Len(current_route_round_coords) = 0

\* recalc_route has just replaced a route by a shorter one that is not empty
\* and the lock is free
C17_Witness ==
    /\ manager_mutex = "free"
    /\ event.op = "recalc"
    /\ Len(route) = 1
    /\ \E o \in PoolOrigins(routepool) : Len(Entry(Self, o).subroute) > Len(route)

(***************************************************************************)
(* The heap swap.                                                          *)
(***************************************************************************)
\* C13: the tick's replacement of the heap and a dispatcher's test-and-pop
\* exclude each other: while a dispatcher is between its test of the head and
\* its pop the tick is not inside _merge_priority_queue, the heap is the one it
\* tested (its head is due), and the heap a dispatcher finds is always a
\* complete heapified queue.
C13_SwapExcludesTestAndPop ==
    /\ prio_queue = Heapify(prio_queue)
    /\ \A o \in Origins :
          pc[o] = "tested" => tick_pc # "locked" /\ manager_mutex = o /\ DueHead
    /\ tick_pc = "locked" => manager_mutex = "tick"

\* the tick is inside _merge_priority_queue while the head of the heap is due
\* for a dispatcher that is not suppressed
C13_Witness ==
    /\ tick_pc = "locked"
    /\ \E o \in PoolOrigins(routepool) : PriorityBranchTaken(Self, o)

(***************************************************************************)
(* Cancellation.                                                           *)
(***************************************************************************)
\* C15: once stop_routemanager has set the stop event the tick thread
\* eventually leaves its loop, so that the join returns, in every execution,
\* dispatchers calling next included.
C15_StopEndsTick ==
    stop_update_thread ~> tick_pc = "exited"

(***************************************************************************)
(* The dispatch branch.                                                    *)
(***************************************************************************)
\* C21: an activation of next(o) that reaches the dispatch step takes the
\* priority branch iff delay_after_timestamp_prio is configured, the last
\* round of o was not a priority round or starve_route is set, the heap is not
\* empty and its head is due.  Taken, it removes exactly the event of the
\* smallest due_at, whose location is the candidate, and sets the position type
\* of o to PRIORITY and last_round_prio[o]; not taken, it leaves the heap as
\* it is.
C21_PriorityBranchIff ==
    [][\A o \in Origins :
         (NextStepOf(o) /\ event'.branch # "-") =>
            /\ event'.branch = "prio" <=>
                  /\ settings.delay_after_prio_event
                  /\ ~(o \in DOMAIN last_round_prio /\ last_round_prio[o])
                       \/ settings.starve_route
                  /\ Len(prio_queue) > 0
                  /\ prio_queue[1][1] < now
            /\ event'.branch = "prio" =>
                  /\ \A i \in 1..Len(prio_queue) : prio_queue[1][1] <= prio_queue[i][1]
                  /\ prio_queue' = Tail(prio_queue)
                  /\ event'.loc = prio_queue[1][2]
                  /\ positiontyp'[o] = PRIORITY
                  /\ last_round_prio'[o]
            /\ event'.branch # "prio" => prio_queue' = prio_queue]_vars

\* a priority dispatch has popped the earlier of two events of different due
\* times
C21_Witness ==
    /\ event.op = "next" /\ event.branch = "prio" /\ event.tag = "loc"
    /\ Len(prio_queue) > 0
    /\ prio_queue[1][1] = MaxTime

\* the origins of the entries the reaper keeps: those accessed within the
\* timeout
WithinTimeout ==
    {routepool[k].origin : k \in {i \in 1..Len(routepool) :
                                     now - routepool[i].last_access <= CheckRoutepoolsTimeout}}

\* a run of the reaper keeps exactly the entries accessed within the timeout
\* and calls the partitioner iff it evicted one
ReaperEvicts ==
    /\ PoolOrigins(routepool') = WithinTimeout
    /\ event'.branch = "rebalance" <=> WithinTimeout # PoolOrigins(routepool)

\* C22 as stated: a run of the reaper keeps exactly the entries accessed within
\* the timeout, runs a rebalance iff it evicted one, and leaves
\* workers_registered, rounds, route and the round remainder unchanged.
C22_ReaperFrame ==
    [][event'.op = "reap" =>
          /\ ReaperEvicts
          /\ UNCHANGED <<workers_registered, rounds, route,
                         current_route_round_coords>>]_vars

\* C22: a run of the reaper keeps exactly the entries accessed within the
\* timeout, runs a rebalance iff it evicted one, and leaves workers_registered
\* and rounds unchanged; route and round remainder are unchanged if the route
\* is not empty or nothing was evicted (the rebalance recalculates an empty
\* route).
C22_ReaperFrameOfRoute ==
    [][event'.op = "reap" =>
          /\ ReaperEvicts
          /\ UNCHANGED <<workers_registered, rounds>>
          /\ (Len(route) > 0 \/ event'.branch # "rebalance") =>
                UNCHANGED <<route, current_route_round_coords>>]_vars

\* the reaper has evicted one origin and kept another, on a route that is not
\* empty
C22_Witness ==
    /\ event.op = "reap" /\ event.branch = "rebalance"
    /\ Len(routepool) > 0
    /\ Len(route) > 0

(***************************************************************************)
(* The init phase.                                                         *)
(***************************************************************************)
\* C23: init goes from true to false only in a call of next(o) made when the
\* round remainder is empty, has been drained at least init_mode_rounds times,
\* and the queue of o is empty; the call installs the recalculated route and
\* returns None.  The init-round counter counts completed rounds, not calls.
C23_InitEndsAfterRounds ==
    [][(init /\ ~init') =>
          /\ event'.op = "next" /\ event'.tag = "none"
          /\ Len(current_route_round_coords) = 0
          /\ drains >= settings.init_mode_rounds
          /\ event'.origin \in PoolOrigins(routepool) =>
                Len(Entry(Self, event'.origin).queue) = 0
          /\ current_route_round_coords' = route']_vars

\* the entry of origin o before a step in which a new origin joined the
\* routepool and the partitioner ran once, without an exception, before the
\* joining origin was served: the step changed o's entry in the partitioner only
JoinRebalances(o) ==
    /\ event'.op = "next"
    /\ event'.origin \notin PoolOrigins(routepool)
    /\ event'.origin \in PoolOrigins(routepool')
    /\ event'.origin # o
    /\ o \in PoolOrigins(routepool) /\ o \in PoolOrigins(routepool')
    /\ event'.reb.ran /\ event'.reb.exc = "none"
    /\ Len(Entry(Self', event'.origin).subroute) > 0

\* the subroute the rebalance of the step computed for origin o
SubrouteOfStep(o) ==
    NewSubroute(event'.reb.rem, PoolIndex(routepool', o) - 1, event'.reb.n)

\* the shrunk case arises for origin o in the step
ShrunkStep(o) ==
    /\ JoinRebalances(o)
    /\ Len(SubrouteOfStep(o)) < Len(Entry(Self, o).subroute)

\* the queue the shrunk case is said to leave: new_subroute if its first
\* element is not in the old queue, else the old queue from that element on,
\* followed by the part of new_subroute after the old queue's last element
ShrunkQueue(q, new_subroute) ==
    IF Len(new_subroute) = 0 \/ new_subroute[1] \notin Range(q)
    THEN new_subroute
    ELSE Slice(q, IndexOf(q, new_subroute[1]), Len(q))
             \o (IF q[Len(q)] \in Range(new_subroute)
                 THEN AfterFirst(new_subroute, q[Len(q)]) ELSE <<>>)

\* C24: in the shrunk case the origin's queue after the rebalance is
\* new_subroute when new_subroute[0] was not in the old queue, and otherwise
\* the old queue from new_subroute[0] on, followed by new_subroute after the
\* old queue's last element if that element lies in new_subroute
C24_ShrunkQueue ==
    [][\A o \in Workers :
          ShrunkStep(o) =>
              Entry(Self', o).queue = ShrunkQueue(Entry(Self, o).queue, SubrouteOfStep(o))]_vars

\* the grown case arises for origin o in the step
GrownStep(o) ==
    /\ JoinRebalances(o)
    /\ Len(Entry(Self, o).subroute) > 0
    /\ Len(SubrouteOfStep(o)) > Len(Entry(Self, o).subroute)

\* the queue the grown case is said to leave: cut right after new_subroute's
\* last element if that is in the queue, else extended by the part of
\* new_subroute after the old subroute's last element, which is in new_subroute
GrownQueue(q, subroute, new_subroute) ==
    LET last_new == new_subroute[Len(new_subroute)]
        e == subroute[Len(subroute)]
    IN  IF last_new \in Range(q) THEN Slice(q, 0, IndexOf(q, last_new) + 1)
        ELSE q \o AfterFirst(new_subroute, e)

\* one of the two cases the grown case is described for
GrownCovered(q, subroute, new_subroute) ==
    \/ new_subroute[Len(new_subroute)] \in Range(q)
    \/ subroute[Len(subroute)] \in Range(new_subroute)

\* the grown case left origin o the queue it is said to leave
GrownQueueAsSaid ==
    \A o \in Workers :
        (/\ GrownStep(o)
         /\ GrownCovered(Entry(Self, o).queue, Entry(Self, o).subroute, SubrouteOfStep(o))) =>
            Entry(Self', o).queue = GrownQueue(Entry(Self, o).queue, Entry(Self, o).subroute,
                                               SubrouteOfStep(o))

\* the grown case of a rebalance raised: both exceptions arise at line 670 only
GrownRaised == event.reb.ran /\ event.reb.exc \in {"UnboundLocalError", "ValueError"}

\* C25: in the grown case the queue is cut right after new_subroute's last
\* element if that is in the queue, and otherwise, if the old subroute's last
\* element e is in new_subroute, extended by new_subroute after e; the step
\* raises nothing, whichever branches earlier origins took
C25_GrownQueue == [][GrownQueueAsSaid /\ ~GrownRaised']_vars

\* C26: a call of get_next_location that returned, a location or None, has
\* left manager_mutex released by the calling thread
C26_ReturnReleasesLock ==
    (event.op = "next" /\ event.tag \in {"loc", "none"}) => manager_mutex # event.origin

\* the step runs the post-init transition, up to the release of line 522
PostInitStep == event'.op = "next" /\ event'.tag = "calc"

\* the step is, or ends, a call of get_next_location that began with
\* _start_calc set, by another thread than the one that set it
CallDuringCalc ==
    /\ start_calc
    /\ event'.op = "next"
    /\ pc[event'.origin] \in {"idle", "retry"}

\* no queue of the routepool and not the heap lost an element in the step
NothingPopped ==
    /\ prio_queue' = prio_queue
    /\ \A o \in PoolOrigins(routepool) \cap PoolOrigins(routepool') :
          Len(Entry(Self', o).queue) >= Len(Entry(Self, o).queue)

\* C27: the post-init transition runs at most once: a step that runs it
\* takes init from true to false, init never comes back, and no two threads
\* are in it at once; a call begun while _start_calc is set returns None and
\* pops nothing
C27_PostInitOnce ==
    [][/\ PostInitStep => (init /\ ~init' /\ ~start_calc)
       /\ ~init => ~init'
       /\ Cardinality({o \in Workers : pc'[o] = "calc"}) <= 1
       /\ CallDuringCalc => (event'.tag = "none" /\ NothingPopped)]_vars


\* C28: a location returned by the normal branch of get_next_location is an
\* element of the current route, also after recalc_route replaced the route
C28_NormalReturnsRouteLocation ==
    (event.op = "next" /\ event.tag = "loc" /\ event.branch = "normal") =>
        event.loc \in Range(route)

=============================================================================
